---- MODULE Spec2Model ----
(***************************************************************************)
(* CAN-Logger: the binary frame decoder (src/src/decoder/decoder.py) and   *)
(* the motor-controller status decoders                                   *)
(* (src/src/decoder/motor_controller.py) and the power-distribution-panel  *)
(* status decoders (src/src/decoder/power_distribution_panel.py).          *)
(*                                                                         *)
(* Python strings are sequences of one-character strings, Python bytes are *)
(* sequences of 0..255, and the unbounded Python integers the status       *)
(* decoders shift and mask are sequences of bits, least significant first. *)
(***************************************************************************)
EXTENDS Integers, Sequences, FiniteSets, TLC

VARIABLES
    stream,             \* log_file.bin: the bytes of the file
    inFile,             \* the read position of the open file object
    pc,                 \* where Decode_And_Save_As_CSV (or the frame pipeline) is
    arbID,              \* str: current arbitration ID, 8 hex characters
    timeStamp,          \* str: current raw timestamp, 4 hex characters
    flags,              \* str
    length,             \* str
    data,               \* str: current payload, 16 hex characters
    decoded,            \* [deviceType, frameType, deviceID] of Decode_Arb_ID
    lastTimestamp,      \* int
    rolloverTimestamp,  \* int
    outFile,            \* log_file.csv: [header, rows]
    payload,            \* int argument `data` of a DecodeStatusX call
    timestampArg,       \* argument `timestamp` of a DecodeStatusX call
    status1,            \* MotorControllerCANStatus.status1
    status2,            \* MotorControllerCANStatus.status2
    calls,              \* the decode calls made on the object, in order
    pdp,                \* PDPCANStatus: [status1, status2, status3]
    raised,             \* the exception the last PDPCANStatus call ended in
    retval              \* what the last GetVoltage call returned

decoderVars == <<stream, inFile, pc, arbID, timeStamp, flags, length, data,
                 decoded, lastTimestamp, rolloverTimestamp, outFile>>
mcVars == <<payload, timestampArg, status1, status2, calls>>
pdpVars == <<pdp, raised, retval>>
vars == <<stream, inFile, pc, arbID, timeStamp, flags, length, data,
          decoded, lastTimestamp, rolloverTimestamp, outFile,
          payload, timestampArg, status1, status2, calls,
          pdp, raised, retval>>

\* ------------------------------------------------------------------ bounds

\* The longest log file, in complete 16-byte records.
MaxFrames == 3
\* The most decode calls made on one status object.
MaxCalls == 2

\* ----------------------------------------------------- strings and integers

Min(a, b) == IF a < b THEN a ELSE b

\* s[a:b] of a Python sequence (0-based, end exclusive, clamped to the length).
Slice(s, a, b) == SubSeq(s, a + 1, Min(b, Len(s)))

HexDigits == <<"0", "1", "2", "3", "4", "5", "6", "7",
               "8", "9", "a", "b", "c", "d", "e", "f">>

DigitVal(c) == CHOOSE i \in 0..15 : HexDigits[i + 1] = c

\* bytes.hex(): two lower-case hex characters per byte.
RECURSIVE BytesHex(_)
BytesHex(bs) ==
    IF bs = <<>> THEN <<>>
    ELSE <<HexDigits[(bs[1] \div 16) + 1], HexDigits[(bs[1] % 16) + 1]>>
         \o BytesHex(Tail(bs))

\* int(s, 16) raises ValueError on the empty string.
IntRaises(s) == Len(s) = 0

RECURSIVE Int16(_)
Int16(s) ==
    IF s = <<>> THEN 0
    ELSE 16 * Int16(SubSeq(s, 1, Len(s) - 1)) + DigitVal(s[Len(s)])

\* hex(n)[2:]: the shortest lower-case hex numeral of n >= 0.
RECURSIVE HexStr(_)
HexStr(n) ==
    IF n < 16 THEN <<HexDigits[n + 1]>>
    ELSE HexStr(n \div 16) \o <<HexDigits[(n % 16) + 1]>>

\* str.zfill(w)
RECURSIVE ZFill(_, _)
ZFill(s, w) == IF Len(s) >= w THEN s ELSE ZFill(<<"0">> \o s, w)

\* a & b on non-negative integers.
RECURSIVE BitAnd(_, _)
BitAnd(a, b) ==
    IF a = 0 \/ b = 0 THEN 0
    ELSE 2 * BitAnd(a \div 2, b \div 2) + (a % 2) * (b % 2)

\* ------------------------------------------------------- Read_CAN_Message

\* f.read(n) at position p: at most n bytes, fewer at the end of the file.
FileRead(content, p, n) == SubSeq(content, p + 1, Min(p + n, Len(content)))
FileTell(content, p, n) == Min(p + n, Len(content))

Read_CAN_Message_BadSwap(content, p) ==
    LET a0 == BytesHex(FileRead(content, p, 4))
        p1 == FileTell(content, p, 4)
        t0 == BytesHex(FileRead(content, p1, 2))
        p2 == FileTell(content, p1, 2)
        fl == BytesHex(FileRead(content, p2, 1))
        p3 == FileTell(content, p2, 1)
        ln == BytesHex(FileRead(content, p3, 1))
        p4 == FileTell(content, p3, 1)
        d0 == BytesHex(FileRead(content, p4, 8))
        p5 == FileTell(content, p4, 8)
    IN  [arbID     |-> Slice(a0, 4, 6) \o Slice(a0, 6, 8)
                       \o Slice(a0, 0, 2) \o Slice(a0, 2, 4),
         timeStamp |-> Slice(t0, 2, 4) \o Slice(t0, 0, 2),
         flags     |-> fl,
         length    |-> ln,
         data      |-> Slice(d0, 8, 16) \o Slice(d0, 0, 8),
         pos       |-> p5]

Read_CAN_Message_LenBytes(content, p) ==
    LET a0 == BytesHex(FileRead(content, p, 4))
        p1 == FileTell(content, p, 4)
        t0 == BytesHex(FileRead(content, p1, 2))
        p2 == FileTell(content, p1, 2)
        fl == BytesHex(FileRead(content, p2, 1))
        p3 == FileTell(content, p2, 1)
        ln == BytesHex(FileRead(content, p3, 1))
        p4 == FileTell(content, p3, 1)
        nb == IF IntRaises(ln) THEN 8 ELSE Int16(ln)
        d0 == BytesHex(FileRead(content, p4, nb))
        p5 == FileTell(content, p4, nb)
    IN  [arbID     |-> Slice(a0, 6, 8) \o Slice(a0, 4, 6)
                       \o Slice(a0, 2, 4) \o Slice(a0, 0, 2),
         timeStamp |-> Slice(t0, 2, 4) \o Slice(t0, 0, 2),
         flags     |-> fl,
         length    |-> ln,
         data      |-> Slice(d0, 14, 16) \o Slice(d0, 12, 14)
                       \o Slice(d0, 10, 12) \o Slice(d0, 8, 10)
                       \o Slice(d0, 6, 8) \o Slice(d0, 4, 6)
                       \o Slice(d0, 2, 4) \o Slice(d0, 0, 2),
         pos       |-> p5]

\* One frame's worth of reads from position p; pos is the position afterwards.
Read_CAN_Message(content, p) ==
    LET a0 == BytesHex(FileRead(content, p, 4))
        p1 == FileTell(content, p, 4)
        t0 == BytesHex(FileRead(content, p1, 2))
        p2 == FileTell(content, p1, 2)
        fl == BytesHex(FileRead(content, p2, 1))
        p3 == FileTell(content, p2, 1)
        ln == BytesHex(FileRead(content, p3, 1))
        p4 == FileTell(content, p3, 1)
        d0 == BytesHex(FileRead(content, p4, 8))
        p5 == FileTell(content, p4, 8)
    IN  [arbID     |-> Slice(a0, 6, 8) \o Slice(a0, 4, 6)
                       \o Slice(a0, 2, 4) \o Slice(a0, 0, 2),
         timeStamp |-> Slice(t0, 2, 4) \o Slice(t0, 0, 2),
         flags     |-> fl,
         length    |-> ln,
         data      |-> Slice(d0, 14, 16) \o Slice(d0, 12, 14)
                       \o Slice(d0, 10, 12) \o Slice(d0, 8, 10)
                       \o Slice(d0, 6, 8) \o Slice(d0, 4, 6)
                       \o Slice(d0, 2, 4) \o Slice(d0, 0, 2),
         pos       |-> p5]

\* ---------------------------------------------------------- Decode_Arb_ID

NoDecode == [raised |-> TRUE, deviceType |-> <<>>, frameType |-> <<>>,
             deviceID |-> 0]

Decode_Arb_ID_WideMask(a) ==
    IF IntRaises(Slice(a, 4, 8)) \/ IntRaises(Slice(a, 6, 8)) THEN NoDecode
    ELSE [raised     |-> FALSE,
          deviceType |-> <<"0", "x">> \o Slice(a, 0, 4),
          frameType  |-> <<"0", "x">>
                         \o ZFill(HexStr(BitAnd(Int16(Slice(a, 4, 8)), 65504)), 4),
          deviceID   |-> BitAnd(Int16(Slice(a, 6, 8)), 127)]

\* raised: int('', 16) raised ValueError (the string was shorter than 8).
Decode_Arb_ID(a) ==
    IF IntRaises(Slice(a, 4, 8)) \/ IntRaises(Slice(a, 6, 8)) THEN NoDecode
    ELSE [raised     |-> FALSE,
          deviceType |-> <<"0", "x">> \o Slice(a, 0, 4),
          frameType  |-> <<"0", "x">>
                         \o ZFill(HexStr(BitAnd(Int16(Slice(a, 4, 8)), 65472)), 4),
          deviceID   |-> BitAnd(Int16(Slice(a, 6, 8)), 63)]

\* ------------------------------------------------- Decode_And_Save_As_CSV

\* The rollover test of the loop body: the epoch after a frame whose raw
\* timestamp is ts, the previous frame's being last.
Rollover_HalfEpoch(ts, last, roll) ==
    IF ts - last < -1000 THEN roll + 32768 ELSE roll

Rollover_Inclusive(ts, last, roll) ==
    IF ts - last <= -1000 THEN roll + 65536 ELSE roll

Rollover_Late(ts, last, roll) ==
    IF ts - last < -1001 THEN roll + 65536 ELSE roll

Rollover(ts, last, roll) ==
    IF ts - last < -1000 THEN roll + 65536 ELSE roll

\* One row of log_file.csv. timeStamp is the integer the format divides by 1e3
\* (%.6f keeps the three decimals of an integer number of thousandths exactly).
Row(dec, ts, fl, ln, d) ==
    [deviceType |-> dec.deviceType, frameType |-> dec.frameType,
     deviceID |-> dec.deviceID, timeStamp |-> ts,
     flags |-> fl, length |-> ln, data |-> d]

\* rolloverTimestamp = 0; open log_file.bin; the first Read_CAN_Message;
\* lastTimestamp = int(timeStamp, 16); open log_file.csv and write the header.
\* int('', 16) raises before log_file.csv is opened.
Start ==
    /\ pc = "start"
    /\ LET m == Read_CAN_Message(stream, inFile)
       IN  /\ inFile' = m.pos
           /\ arbID' = m.arbID
           /\ timeStamp' = m.timeStamp
           /\ flags' = m.flags
           /\ length' = m.length
           /\ data' = m.data
           /\ rolloverTimestamp' = 0
           /\ IF IntRaises(m.timeStamp)
              THEN /\ pc' = "ValueError"
                   /\ UNCHANGED <<lastTimestamp, outFile>>
              ELSE /\ pc' = "loop"
                   /\ lastTimestamp' = Int16(m.timeStamp)
                   /\ outFile' = [header |-> TRUE, rows |-> <<>>]
    /\ UNCHANGED <<stream, decoded>>
    /\ UNCHANGED mcVars
    /\ UNCHANGED pdpVars

\* One pass of `while arbID:`: decode the ID, reconstruct the timestamp, write
\* the row, read the next frame. Either int( , 16) may raise.
LoopBody ==
    /\ pc = "loop"
    /\ arbID # <<>>
    /\ LET dec == Decode_Arb_ID(arbID)
           ts  == Int16(timeStamp)
           rt  == Rollover(ts, lastTimestamp, rolloverTimestamp)
           m   == Read_CAN_Message(stream, inFile)
       IN  IF dec.raised \/ IntRaises(timeStamp)
           THEN /\ pc' = "ValueError"
                /\ decoded' = IF dec.raised THEN decoded ELSE dec
                /\ UNCHANGED <<inFile, arbID, timeStamp, flags, length, data,
                               lastTimestamp, rolloverTimestamp, outFile>>
           ELSE /\ pc' = "loop"
                /\ decoded' = dec
                /\ rolloverTimestamp' = rt
                /\ lastTimestamp' = ts
                /\ outFile' = [outFile EXCEPT !.rows =
                                 Append(@, Row(dec, ts + rt, flags, length, data))]
                /\ inFile' = m.pos
                /\ arbID' = m.arbID
                /\ timeStamp' = m.timeStamp
                /\ flags' = m.flags
                /\ length' = m.length
                /\ data' = m.data
    /\ UNCHANGED stream
    /\ UNCHANGED mcVars
    /\ UNCHANGED pdpVars

\* `while arbID:` with the empty string: the loop and both files end.
LoopExit ==
    /\ pc = "loop"
    /\ arbID = <<>>
    /\ pc' = "done"
    /\ UNCHANGED <<stream, inFile, arbID, timeStamp, flags, length, data,
                   decoded, lastTimestamp, rolloverTimestamp, outFile>>
    /\ UNCHANGED mcVars
    /\ UNCHANGED pdpVars

\* ------------------------------------------------------------ log files

\* Two arbitration IDs as they lie in the file (least significant byte
\* first): 0x02041401, a TalonSRX status 1 frame of device 1, and 0x08041fc5,
\* whose frame type 0x1fc0 is no status frame of any decoder.
ArbWire == {<<1, 20, 4, 2>>, <<197, 31, 4, 8>>}

\* Raw timestamps: 1200 -> 200 and 1201 -> 200 lie on either side of the
\* rollover threshold, 1201 -> 1200 is jitter, 65500 -> 200 a real wrap.
RawTimestamps == {200, 1200, 1201, 65500}

\* flags, length and payload of the records of each arbitration ID.
RestWire(a) ==
    IF a[1] = 1 THEN <<0, 8, 1, 35, 69, 103, 137, 171, 205, 239>>
    ELSE <<1, 2, 254, 220, 0, 0, 0, 0, 0, 0>>

Record(a, t) == a \o <<t % 256, t \div 256>> \o RestWire(a)

Records == {Record(a, t) : a \in ArbWire, t \in RawTimestamps}

RECURSIVE Flatten(_)
Flatten(rs) == IF rs = <<>> THEN <<>> ELSE rs[1] \o Flatten(Tail(rs))

\* The record a truncated file ends in the middle of.
TailRecord == Record(<<1, 20, 4, 2>>, 1201)

\* Every log file of up to MaxFrames complete records followed by the first
\* 0..15 bytes of one more.
LogFiles ==
    {Flatten(rs) \o SubSeq(TailRecord, 1, r) :
        rs \in UNION {[1..n -> Records] : n \in 0..MaxFrames}, r \in 0..15}

MCIdle ==
    /\ payload = <<>>
    /\ timestampArg = 0
    /\ status1 = [timestamp |-> 0]
    /\ status2 = [timestamp |-> 0]
    /\ calls = <<>>

PDPIdle ==
    /\ pdp = <<>>
    /\ raised = ""
    /\ retval = 0

DecoderIdle ==
    /\ inFile = 0
    /\ pc = "start"
    /\ arbID = <<>>
    /\ timeStamp = <<>>
    /\ flags = <<>>
    /\ length = <<>>
    /\ data = <<>>
    /\ decoded = NoDecode
    /\ lastTimestamp = 0
    /\ rolloverTimestamp = 0
    /\ outFile = [header |-> FALSE, rows |-> <<>>]

Init ==
    /\ stream \in LogFiles
    /\ DecoderIdle
    /\ MCIdle
    /\ PDPIdle

Next == Start \/ LoopBody \/ LoopExit

Spec == Init /\ [][Next]_vars

\* Log files of one device whose raw timestamps sit at the ends of the 16-bit
\* counter: 65535 -> 0 is the shortest wrap, 1001 -> 0 a step just past the
\* rollover threshold, 1000 -> 0 one just short of it.
WrapTimestamps == {0, 1000, 1001, 65000, 65535}

WrapRecords == {Record(<<1, 20, 4, 2>>, t) : t \in WrapTimestamps}

WrapFiles ==
    {Flatten(rs) : rs \in UNION {[1..n -> WrapRecords] : n \in 0..MaxFrames}}

InitWrap ==
    /\ stream \in WrapFiles
    /\ DecoderIdle
    /\ MCIdle
    /\ PDPIdle

SpecWrap == InitWrap /\ [][Next]_vars

\* ------------------------------------------- one frame, read and decoded

\* Read_CAN_Message applied to a file of one record.
FrameRead ==
    /\ pc = "frame"
    /\ LET m == Read_CAN_Message(stream, inFile)
       IN  /\ inFile' = m.pos
           /\ arbID' = m.arbID
           /\ timeStamp' = m.timeStamp
           /\ flags' = m.flags
           /\ length' = m.length
           /\ data' = m.data
    /\ pc' = "read"
    /\ UNCHANGED <<stream, decoded, lastTimestamp, rolloverTimestamp, outFile>>
    /\ UNCHANGED mcVars
    /\ UNCHANGED pdpVars

\* Decode_Arb_ID applied to the arbitration ID just read.
FrameDecode ==
    /\ pc = "read"
    /\ decoded' = Decode_Arb_ID(arbID)
    /\ pc' = "decoded"
    /\ UNCHANGED <<stream, inFile, arbID, timeStamp, flags, length, data,
                   lastTimestamp, rolloverTimestamp, outFile>>
    /\ UNCHANGED mcVars
    /\ UNCHANGED pdpVars

\* Single records: the arbitration ID bytes cover device IDs 0, 1 and 63, the
\* bits on either side of the 0x3f / 0xffc0 split, and both halves' extremes.
FrameArbWire ==
    {<<b0, b1, b2, b3>> : b0 \in {0, 63, 64, 127, 128, 193, 255},
                          b1 \in {0, 15, 20, 240, 255},
                          b2 \in {4, 171}, b3 \in {0, 2, 255}}
FrameTimeWire == {<<0, 0>>, <<177, 4>>, <<1, 128>>, <<255, 255>>}
FrameFlagsLength == {<<0, 8>>, <<255, 0>>}
FramePayloadWire ==
    {<<1, 35, 69, 103, 137, 171, 205, 239>>,
     <<0, 0, 0, 0, 0, 0, 0, 128>>,
     <<255, 254, 253, 252, 251, 250, 249, 248>>}
FrameRecords ==
    {a \o t \o fl \o d : a \in FrameArbWire, t \in FrameTimeWire,
                         fl \in FrameFlagsLength, d \in FramePayloadWire}

InitFrame ==
    /\ stream \in FrameRecords
    /\ inFile = 0
    /\ pc = "frame"
    /\ arbID = <<>>
    /\ timeStamp = <<>>
    /\ flags = <<>>
    /\ length = <<>>
    /\ data = <<>>
    /\ decoded = NoDecode
    /\ lastTimestamp = 0
    /\ rolloverTimestamp = 0
    /\ outFile = [header |-> FALSE, rows |-> <<>>]
    /\ MCIdle
    /\ PDPIdle

NextFrame == FrameRead \/ FrameDecode

SpecFrame == InitFrame /\ [][NextFrame]_vars

\* --------------------------------------------------- Python integers

\* A non-negative Python int of any size: its bits, least significant first,
\* with no zero at the high end (0 is the empty sequence). The status decoders
\* only shift, mask, or and multiply non-negative ints, so no result is
\* negative.
RECURSIVE Trim(_)
Trim(b) ==
    IF b = <<>> THEN <<>>
    ELSE IF b[Len(b)] = 0 THEN Trim(SubSeq(b, 1, Len(b) - 1)) ELSE b

BitAt(b, i) == IF i + 1 <= Len(b) THEN b[i + 1] ELSE 0

RECURSIVE FromNat(_)
FromNat(n) == IF n = 0 THEN <<>> ELSE <<n % 2>> \o FromNat(n \div 2)

RECURSIVE ToNat(_)
ToNat(b) == IF b = <<>> THEN 0 ELSE b[1] + 2 * ToNat(Tail(b))

\* x >> k
IntShr(x, k) == SubSeq(x, k + 1, Len(x))

\* x << k
IntShl(x, k) == IF x = <<>> THEN <<>> ELSE [i \in 1..k |-> 0] \o x

Max(a, b) == IF a > b THEN a ELSE b

\* x | y
IntOr(x, y) ==
    [i \in 1..Max(Len(x), Len(y)) |->
        IF BitAt(x, i - 1) = 1 \/ BitAt(y, i - 1) = 1 THEN 1 ELSE 0]

\* x & y
IntAnd(x, y) ==
    Trim([i \in 1..Min(Len(x), Len(y)) |-> x[i] * y[i]])

\* x + y + c, added sixteen bits at a time
LimbBits == 16

LimbBase == 65536

Limb(x) == ToNat(SubSeq(x, 1, Min(LimbBits, Len(x))))

RECURSIVE AddLimbs(_, _, _)
AddLimbs(x, y, c) ==
    IF x = <<>> /\ y = <<>> THEN (IF c = 1 THEN <<1>> ELSE <<>>)
    ELSE LET t   == Limb(x) + Limb(y) + c
             low == FromNat(t % LimbBase)
             pad == [i \in 1..(LimbBits - Len(low)) |-> 0]
         IN  low \o pad \o
             AddLimbs(IntShr(x, LimbBits), IntShr(y, LimbBits), t \div LimbBase)

AddCarry(x, y, c) == Trim(AddLimbs(x, y, c))

\* x * m for a small m >= 0
RECURSIVE IntMul(_, _)
IntMul(x, m) == IF m = 0 THEN <<>> ELSE AddCarry(x, IntMul(x, m - 1), 0)

\* (x >> k) & 1 as a number
Bit(x, k) == ToNat(IntAnd(IntShr(x, k), FromNat(1)))

\* ------------------------------------------- MotorControllerCANStatus

\* A float that is an integer over a fixed divisor: raw / 1023.0, raw * 0.125.
Ratio(n, d) == [num |-> n, den |-> d]

\* One call as the history keeps it: the method and its two arguments.
Call(name) == [name |-> name, data |-> payload, timestamp |-> timestampArg]

\* __init__
InitStatus1 ==
    [timestamp |-> 0,
     hardware_failure |-> 0, reverse_limit_switch |-> 0,
     forward_limit_switch |-> 0, under_voltage |-> 0, reset_during_en |-> 0,
     sensor_out_of_phase |-> 0, sensor_overflow |-> 0,
     reverse_soft_limit |-> 0, forward_soft_limit |-> 0,
     hardware_esd_reset |-> 0, remote_loss_of_signal |-> 0,
     motor_output_percent |-> Ratio(<<>>, 1),
     fwd_limit_switch_closed |-> 0, rev_limit_switch_closed |-> 0]

InitStatus2 ==
    [timestamp |-> 0,
     output_current |-> Ratio(<<>>, 1),
     sensor_position |-> <<>>, sensor_velocity |-> <<>>,
     remote_loss_of_signal |-> 0, hardware_esd_reset |-> 0,
     reset_during_en |-> 0, sensor_out_of_phase |-> 0, sensor_overflow |-> 0,
     reverse_soft_limit |-> 0, forward_soft_limit |-> 0,
     reverse_limit_switch |-> 0, forward_limit_switch |-> 0,
     under_voltage |-> 0]

_GetFaults_WrongBit(st, d) ==
    [st EXCEPT !.hardware_failure      = Bit(d, 0),
               !.reverse_limit_switch  = Bit(d, 1),
               !.forward_limit_switch  = Bit(d, 2),
               !.under_voltage         = Bit(d, 3),
               !.reset_during_en       = Bit(d, 4),
               !.sensor_out_of_phase   = Bit(d, 5),
               !.sensor_overflow       = Bit(d, 6),
               !.reverse_soft_limit    = Bit(d, 24 + 0),
               !.forward_soft_limit    = Bit(d, 24 + 1),
               !.hardware_esd_reset    = Bit(d, 24 + 2),
               !.remote_loss_of_signal = Bit(d, 56 + 4)]

_GetFaults(st, d) ==
    [st EXCEPT !.hardware_failure      = Bit(d, 0),
               !.reverse_limit_switch  = Bit(d, 1),
               !.forward_limit_switch  = Bit(d, 2),
               !.under_voltage         = Bit(d, 3),
               !.reset_during_en       = Bit(d, 4),
               !.sensor_out_of_phase   = Bit(d, 5),
               !.sensor_overflow       = Bit(d, 6),
               !.reverse_soft_limit    = Bit(d, 24 + 0),
               !.forward_soft_limit    = Bit(d, 24 + 1),
               !.hardware_esd_reset    = Bit(d, 24 + 2),
               !.remote_loss_of_signal = Bit(d, 48 + 4)]

\* raw <<= (32 - 11); raw >>= (32 - 11) on a Python int drops no bit.
_GetMotorOutputPercent(st, d) ==
    LET H    == IntAnd(IntShr(d, 24), FromNat(7))
        L    == IntAnd(IntShr(d, 32), FromNat(255))
        raw1 == IntOr(<<>>, H)
        raw2 == IntShl(raw1, 8)
        raw3 == IntOr(raw2, L)
        raw4 == IntShl(raw3, 32 - 11)
        raw5 == IntShr(raw4, 32 - 11)
    IN  [st EXCEPT !.motor_output_percent = Ratio(raw5, 1023)]

_GetFwdLimitSwitchClosed(st, d) ==
    [st EXCEPT !.fwd_limit_switch_closed = Bit(d, 24 + 7)]

_GetRevLimitSwitchClosed(st, d) ==
    [st EXCEPT !.rev_limit_switch_closed = Bit(d, 24 + 6)]

_GetOutputCurrent_LowMask(st, d) ==
    LET H    == IntAnd(IntShr(d, 40), FromNat(255))
        L    == IntAnd(IntShr(d, 48), FromNat(3))
        raw1 == IntOr(<<>>, H)
        raw2 == IntShl(raw1, 8)
        raw3 == IntOr(raw2, L)
        raw4 == IntShr(raw3, 6)
    IN  [st EXCEPT !.output_current = Ratio(raw4, 8)]

_GetOutputCurrent(st, d) ==
    LET H    == IntAnd(IntShr(d, 40), FromNat(255))
        L    == IntAnd(IntShr(d, 48), FromNat(192))
        raw1 == IntOr(<<>>, H)
        raw2 == IntShl(raw1, 8)
        raw3 == IntOr(raw2, L)
        raw4 == IntShr(raw3, 6)
    IN  [st EXCEPT !.output_current = Ratio(raw4, 8)]

\* H, M and L are not masked to a byte, and the shift pair drops no bit.
_GetSensorPosition(st, d) ==
    LET H       == IntShr(d, 0)
        M       == IntShr(d, 8)
        L       == IntShr(d, 16)
        PosDiv8 == Bit(d, 56 + 4)
        raw1    == IntOr(<<>>, H)
        raw2    == IntShl(raw1, 8)
        raw3    == IntOr(raw2, M)
        raw4    == IntShl(raw3, 8)
        raw5    == IntOr(raw4, L)
        raw6    == IntShl(raw5, 32 - 24)
        raw7    == IntShr(raw6, 32 - 24)
        raw8    == IF PosDiv8 = 1 THEN IntMul(raw7, 8) ELSE raw7
    IN  [st EXCEPT !.sensor_position = raw8]

_GetSensorVelocity(st, d) ==
    LET H       == IntShr(d, 24)
        L       == IntShr(d, 32)
        VelDiv4 == Bit(d, 56 + 3)
        raw1    == IntOr(<<>>, H)
        raw2    == IntShl(raw1, 8)
        raw3    == IntOr(raw2, L)
        raw4    == IntShl(raw3, 32 - 16)
        raw5    == IntShr(raw4, 32 - 16)
        raw6    == IF VelDiv4 = 1 THEN IntMul(raw5, 4) ELSE raw5
    IN  [st EXCEPT !.sensor_velocity = raw6]

_GetStickyFaults_Accumulate(st, d) ==
    [st EXCEPT !.remote_loss_of_signal = Bit(d, 56 + 0),
               !.hardware_esd_reset    = Bit(d, 56 + 1),
               !.reset_during_en       = Bit(d, 56 + 2),
               !.sensor_out_of_phase   = Bit(d, 56 + 5),
               !.sensor_overflow       = Bit(d, 56 + 6),
               !.reverse_soft_limit    = Bit(d, 48 + 0),
               !.forward_soft_limit    = Bit(d, 48 + 1),
               !.reverse_limit_switch  = Bit(d, 48 + 2),
               !.forward_limit_switch  = Bit(d, 48 + 3),
               !.under_voltage         = Max(st.under_voltage, Bit(d, 48 + 4))]

_GetStickyFaults(st, d) ==
    [st EXCEPT !.remote_loss_of_signal = Bit(d, 56 + 0),
               !.hardware_esd_reset    = Bit(d, 56 + 1),
               !.reset_during_en       = Bit(d, 56 + 2),
               !.sensor_out_of_phase   = Bit(d, 56 + 5),
               !.sensor_overflow       = Bit(d, 56 + 6),
               !.reverse_soft_limit    = Bit(d, 48 + 0),
               !.forward_soft_limit    = Bit(d, 48 + 1),
               !.reverse_limit_switch  = Bit(d, 48 + 2),
               !.forward_limit_switch  = Bit(d, 48 + 3),
               !.under_voltage         = Bit(d, 48 + 4)]

\* The body of DecodeStatus1 on the dictionary st.
Status1Body(st, d, ts) ==
    _GetRevLimitSwitchClosed(
      _GetFwdLimitSwitchClosed(
        _GetMotorOutputPercent(
          _GetFaults([st EXCEPT !.timestamp = ts], d),
          d),
        d),
      d)

\* The body of DecodeStatus2 on the dictionary st.
Status2Body(st, d, ts) ==
    _GetStickyFaults(
      _GetSensorVelocity(
        _GetSensorPosition(
          _GetOutputCurrent([st EXCEPT !.timestamp = ts], d),
          d),
        d),
      d)

DecodeStatus1 ==
    /\ Len(calls) < MaxCalls
    /\ status1' = Status1Body(status1, payload, timestampArg)
    /\ calls' = Append(calls, Call("DecodeStatus1"))
    /\ UNCHANGED <<payload, timestampArg, status2>>
    /\ UNCHANGED decoderVars
    /\ UNCHANGED pdpVars

DecodeStatus2 ==
    /\ Len(calls) < MaxCalls
    /\ status2' = Status2Body(status2, payload, timestampArg)
    /\ calls' = Append(calls, Call("DecodeStatus2"))
    /\ UNCHANGED <<payload, timestampArg, status1>>
    /\ UNCHANGED decoderVars
    /\ UNCHANGED pdpVars

\* 64-bit payloads, byte by byte from bits 0-7 up to bits 56-63: sign bits set
\* and clear in bytes 0 and 2, the 0b111 / 0xff output-percent pattern in
\* bytes 3 and 4, and the divide flags (bits 59 and 60) in byte 7.
PayloadBytes ==
    {<<b0, b1, b2, b3, b4, b5, b6, b7>> :
        b0 \in {0, 128, 255}, b1 \in {0, 255}, b2 \in {0, 127, 128},
        b3 \in {0, 7, 255}, b4 \in {0, 255}, b5 \in {0, 165},
        b6 \in {0, 192}, b7 \in {0, 8, 16, 255}}

ByteBits(b) == [i \in 1..8 |-> (b \div (2 ^ (i - 1))) % 2]

RECURSIVE BytesToInt(_)
BytesToInt(bs) ==
    IF bs = <<>> THEN <<>> ELSE Trim(ByteBits(bs[1]) \o BytesToInt(Tail(bs)))

Payloads == {BytesToInt(bs) : bs \in PayloadBytes}

TimestampArgs == {4, 1201}

InitMC ==
    /\ stream = <<>>
    /\ DecoderIdle
    /\ payload \in Payloads
    /\ timestampArg \in TimestampArgs
    /\ status1 = InitStatus1
    /\ status2 = InitStatus2
    /\ calls = <<>>
    /\ PDPIdle

NextMC == DecodeStatus1 \/ DecodeStatus2

SpecMC == InitMC /\ [][NextMC]_vars

\* Payloads of one set bit, of one clear bit, and of none set: every bit of
\* the payload on its own.
OneBit(k) == [i \in 1..k |-> 0] \o <<1>>
AllButBit(k) == Trim([i \in 1..k |-> 1] \o <<0>> \o [i \in 1..(63 - k) |-> 1])
BitPayloads == {<<>>} \cup {OneBit(k) : k \in 0..63} \cup {AllButBit(k) : k \in 0..63}

InitBits ==
    /\ stream = <<>>
    /\ DecoderIdle
    /\ payload \in BitPayloads
    /\ timestampArg \in TimestampArgs
    /\ status1 = InitStatus1
    /\ status2 = InitStatus2
    /\ calls = <<>>
    /\ PDPIdle

SpecBits == InitBits /\ [][NextMC]_vars

\* A caller going from one call to the next with new arguments.
SeqPayloadBytes ==
    {<<0, 0, 0, 0, 0, 0, 0, 0>>,
     <<255, 255, 255, 255, 255, 255, 255, 255>>,
     <<1, 0, 128, 3, 165, 90, 64, 8>>,
     <<126, 255, 1, 196, 90, 165, 159, 50>>}

SeqPayloads == {BytesToInt(bs) : bs \in SeqPayloadBytes}

NextArgs ==
    /\ Len(calls) < MaxCalls
    /\ payload' \in SeqPayloads
    /\ timestampArg' \in TimestampArgs
    /\ UNCHANGED <<status1, status2, calls>>
    /\ UNCHANGED decoderVars
    /\ UNCHANGED pdpVars

InitSeq ==
    /\ stream = <<>>
    /\ DecoderIdle
    /\ payload \in SeqPayloads
    /\ timestampArg \in TimestampArgs
    /\ status1 = InitStatus1
    /\ status2 = InitStatus2
    /\ calls = <<>>
    /\ PDPIdle

NextSeq == DecodeStatus1 \/ DecodeStatus2 \/ NextArgs

SpecSeq == InitSeq /\ [][NextSeq]_vars

\* ------------------------------------------------------- PDPCANStatus

\* __init__
PDPInit ==
    [status1 |-> [arbid |-> 5120, timestamp |-> 0,
                  channel_0 |-> Ratio(<<>>, 1), channel_1 |-> Ratio(<<>>, 1),
                  channel_2 |-> Ratio(<<>>, 1), channel_3 |-> Ratio(<<>>, 1),
                  channel_4 |-> Ratio(<<>>, 1), channel_5 |-> Ratio(<<>>, 1)],
     status2 |-> [arbid |-> 5184, timestamp |-> 0,
                  channel_6 |-> Ratio(<<>>, 1), channel_7 |-> Ratio(<<>>, 1),
                  channel_8 |-> Ratio(<<>>, 1), channel_9 |-> Ratio(<<>>, 1),
                  channel_10 |-> Ratio(<<>>, 1), channel_11 |-> Ratio(<<>>, 1)],
     status3 |-> [arbid |-> 5248, timestamp |-> 0,
                  channel_12 |-> Ratio(<<>>, 1), channel_13 |-> Ratio(<<>>, 1),
                  channel_14 |-> Ratio(<<>>, 1), channel_15 |-> Ratio(<<>>, 1),
                  voltage |-> Ratio(<<>>, 1)]]

\* The six integers of CurrentList before the scaling loop, in list order.
CurrentInts(d) ==
    LET c0a == d
        c0b == IntShl(c0a, 2)
        c0  == IntOr(c0b, IntAnd(IntShr(d, 14), FromNat(3)))
        c1a == IntAnd(IntShr(d, 8), FromNat(63))
        c1b == IntShl(c1a, 4)
        c1  == IntOr(c1b, IntAnd(IntShr(d, 20), FromNat(15)))
        c2a == IntAnd(IntShr(d, 16), FromNat(15))
        c2b == IntShl(c2a, 6)
        c2  == IntOr(c2b, IntAnd(IntShr(d, 26), FromNat(63)))
        c3a == IntAnd(IntShr(d, 24), FromNat(3))
        c3b == IntShl(c3a, 8)
        c3  == IntOr(c3b, IntShr(d, 32))
        c4a == IntShr(d, 40)
        c4b == IntShl(c4a, 2)
        c4  == IntOr(c4b, IntAnd(IntShr(d, 54), FromNat(3)))
        c5a == IntAnd(IntShr(d, 48), FromNat(63))
        c5b == IntShl(c5a, 4)
        c5  == IntOr(c5b, IntAnd(IntShr(d, 60), FromNat(15)))
    IN  <<c0, c1, c2, c3, c4, c5>>

\* GetCurrent(data, arbid): every item times CurrentScalar = 0.125, as the
\* exact quotient (the rounding of an item beyond 2 ** 53 to a float is left
\* out).
GetCurrent(d, arbid) ==
    LET CurrentList == CurrentInts(d)
    IN  [x \in 1..6 |-> Ratio(CurrentList[x], 8)]

\* GetVoltage(data): .05 * VoltNum + 4 = (VoltNum + 80) / 20.
GetVoltage(d) ==
    LET VoltNum == IntShr(d, 48)
    IN  Ratio(AddCarry(VoltNum, FromNat(80), 0), 20)

\* The body of DecodeStatus1 on the object p.
PDPStatus1(p, d, ts) ==
    LET CurrentList == GetCurrent(d, p.status1.arbid)
    IN  [p EXCEPT !.status1 =
            [@ EXCEPT !.timestamp = ts,
                      !.channel_0 = CurrentList[1], !.channel_1 = CurrentList[2],
                      !.channel_2 = CurrentList[3], !.channel_3 = CurrentList[4],
                      !.channel_4 = CurrentList[5], !.channel_5 = CurrentList[6]]]

\* The body of DecodeStatus2 on the object p.
PDPStatus2(p, d, ts) ==
    LET CurrentList == GetCurrent(d, p.status2.arbid)
    IN  [p EXCEPT !.status2 =
            [@ EXCEPT !.timestamp = ts,
                      !.channel_6 = CurrentList[1], !.channel_7 = CurrentList[2],
                      !.channel_8 = CurrentList[3], !.channel_9 = CurrentList[4],
                      !.channel_10 = CurrentList[5], !.channel_11 = CurrentList[6]]]

\* The body of DecodeStatus3 on the object p, up to its last statement:
\* self.GetVoltage(data, arbid) hands three positional arguments to a method
\* of two, so the call raises TypeError and the voltage is never stored.
PDPStatus3(p, d, ts) ==
    LET CurrentList == GetCurrent(d, p.status3.arbid)
    IN  [p EXCEPT !.status3 =
            [@ EXCEPT !.timestamp = ts,
                      !.channel_12 = CurrentList[1], !.channel_13 = CurrentList[2],
                      !.channel_14 = CurrentList[3], !.channel_15 = CurrentList[4]]]

PDP_DecodeStatus1 ==
    /\ Len(calls) < MaxCalls
    /\ pdp' = PDPStatus1(pdp, payload, timestampArg)
    /\ raised' = ""
    /\ calls' = Append(calls, Call("PDP.DecodeStatus1"))
    /\ UNCHANGED <<payload, timestampArg, status1, status2, retval>>
    /\ UNCHANGED decoderVars

PDP_DecodeStatus2 ==
    /\ Len(calls) < MaxCalls
    /\ pdp' = PDPStatus2(pdp, payload, timestampArg)
    /\ raised' = ""
    /\ calls' = Append(calls, Call("PDP.DecodeStatus2"))
    /\ UNCHANGED <<payload, timestampArg, status1, status2, retval>>
    /\ UNCHANGED decoderVars

PDP_DecodeStatus3 ==
    /\ Len(calls) < MaxCalls
    /\ pdp' = PDPStatus3(pdp, payload, timestampArg)
    /\ raised' = "TypeError"
    /\ calls' = Append(calls, Call("PDP.DecodeStatus3"))
    /\ UNCHANGED <<payload, timestampArg, status1, status2, retval>>
    /\ UNCHANGED decoderVars

\* Main: the three decodes in succession; the third one's exception leaves it.
PDP_Main ==
    /\ Len(calls) < MaxCalls
    /\ pdp' = PDPStatus3(PDPStatus2(PDPStatus1(pdp, payload, timestampArg),
                                    payload, timestampArg),
                         payload, timestampArg)
    /\ raised' = "TypeError"
    /\ calls' = Append(calls, Call("PDP.Main"))
    /\ UNCHANGED <<payload, timestampArg, status1, status2, retval>>
    /\ UNCHANGED decoderVars

\* GetVoltage called on its own, with the one argument it takes.
PDP_GetVoltage ==
    /\ Len(calls) < MaxCalls
    /\ retval' = GetVoltage(payload)
    /\ raised' = ""
    /\ calls' = Append(calls, Call("PDP.GetVoltage"))
    /\ UNCHANGED <<payload, timestampArg, status1, status2, pdp>>
    /\ UNCHANGED decoderVars

\* 64-bit payloads, byte by byte from bits 0-7 up to bits 56-63: bits above
\* bit 7 for channel 0, above bit 39 for channel 3, above bit 49 for channel
\* 4, and bits 48-55 set under a clear and a set top byte for the voltage.
PDPPayloadBytes ==
    {<<b0, b1, 0, b3, b4, b5, b6, b7>> :
        b0 \in {0, 255}, b1 \in {0, 192}, b3 \in {0, 3}, b4 \in {0, 255},
        b5 \in {0, 1}, b6 \in {0, 1, 255}, b7 \in {0, 255}}

PDPPayloads == {BytesToInt(bs) : bs \in PDPPayloadBytes}

InitPDP ==
    /\ stream = <<>>
    /\ DecoderIdle
    /\ payload \in PDPPayloads
    /\ timestampArg \in TimestampArgs
    /\ status1 = [timestamp |-> 0]
    /\ status2 = [timestamp |-> 0]
    /\ calls = <<>>
    /\ pdp = PDPInit
    /\ raised = ""
    /\ retval = 0

NextPDP ==
    \/ PDP_DecodeStatus1
    \/ PDP_DecodeStatus2
    \/ PDP_DecodeStatus3
    \/ PDP_Main
    \/ PDP_GetVoltage

SpecPDP == InitPDP /\ [][NextPDP]_vars

\* ===================================================== the decode session

\* What the file holds, read off its bytes.
NComplete == Len(stream) \div 16
TailLen == Len(stream) % 16
WireByte(k, i) == stream[16 * (k - 1) + i + 1]
WireRaw(k) == WireByte(k, 4) + 256 * WireByte(k, 5)
Rollovers(k) == Cardinality({i \in 2..k : WireRaw(i) - WireRaw(i - 1) < -1000})
Rows == outFile.rows
\* The rows written from complete records.
FullRows == Min(Len(Rows), NComplete)

RECURSIVE Reverse(_)
Reverse(s) == IF s = <<>> THEN <<>> ELSE Reverse(Tail(s)) \o <<s[1]>>

\* C1 as stated: the reconstructed timestamps written for the complete
\* records of any file never decrease from one row to the next.
C1_NeverDecreases ==
    \A k \in 2..FullRows : Rows[k].timeStamp >= Rows[k - 1].timeStamp

\* C1 (amended): from one row to the next the reconstructed timestamp does not
\* decrease unless the raw timestamp stepped back by 1..1000 units, and then
\* it decreases by exactly that step.
C1_DecreasesOnlyByJitter ==
    \A k \in 2..FullRows :
        LET d == WireRaw(k) - WireRaw(k - 1)
        IN  IF d \in -1000..-1
            THEN Rows[k].timeStamp - Rows[k - 1].timeStamp = d
            ELSE Rows[k].timeStamp >= Rows[k - 1].timeStamp

\* Three rows written: a wrap (65500 -> 1201) and then jitter (1201 -> 1200).
C1_Witness ==
    /\ FullRows >= 3
    /\ WireRaw(1) = 65500 /\ WireRaw(2) = 1201 /\ WireRaw(3) = 1200
    /\ Rows[2].timeStamp > Rows[1].timeStamp
    /\ Rows[3].timeStamp < Rows[2].timeStamp

\* C2: after the k-th frame the rollover epoch is 65536 times the number of
\* frames 2..k whose raw timestamp is more than 1000 below the previous
\* frame's, every row carries the epoch of its frame plus its raw timestamp,
\* and lastTimestamp is the raw timestamp of the frame just written.
C2_EpochCountsWraps ==
    (pc # "start" /\ NComplete >= 1 /\ Len(Rows) <= NComplete) =>
        /\ rolloverTimestamp = 65536 * Rollovers(Len(Rows))
        /\ lastTimestamp = WireRaw(IF Len(Rows) = 0 THEN 1 ELSE Len(Rows))
        /\ \A j \in 1..Len(Rows) :
               Rows[j].timeStamp = 65536 * Rollovers(j) + WireRaw(j)

\* Three frames: a wrap (65500 -> 1200), then a step back of exactly 1000.
C2_Witness ==
    /\ NComplete >= 3 /\ Len(Rows) = 3
    /\ WireRaw(1) = 65500 /\ WireRaw(2) = 1200 /\ WireRaw(3) = 200
    /\ rolloverTimestamp = 65536
    /\ lastTimestamp = 200

\* C3 as stated: a file that ends in a partial record never ends the session
\* cleanly, and no row is written from the partial record.
C3_TruncatedIsFatal ==
    TailLen >= 1 => (pc # "done" /\ Len(Rows) <= NComplete)

\* C4 as stated: a file of complete records only (the empty file included)
\* never ends the session with an error.
C4_CleanEndOfStream ==
    TailLen = 0 => pc # "ValueError"

\* The row the k-th record of the file must give, read off its bytes; the
\* timestamp is compared up to the epoch.
ExpectedFrameType(k) ==
    (WireByte(k, 0) - (WireByte(k, 0) % 64)) + 256 * WireByte(k, 1)
RowFromRecord(r, k) ==
    /\ r.deviceType = <<"0", "x">> \o BytesHex(<<WireByte(k, 3), WireByte(k, 2)>>)
    /\ r.frameType = <<"0", "x">>
          \o BytesHex(<<ExpectedFrameType(k) \div 256, ExpectedFrameType(k) % 256>>)
    /\ r.deviceID = WireByte(k, 0) % 64
    /\ r.timeStamp % 65536 = WireRaw(k)
    /\ r.flags = BytesHex(<<WireByte(k, 6)>>)
    /\ r.length = BytesHex(<<WireByte(k, 7)>>)
    /\ r.data = BytesHex(Reverse(SubSeq(stream, 16 * (k - 1) + 9, 16 * k)))

\* C6: for a file of n complete records, the k-th row written is the row of
\* bytes 16(k-1)..16k-1, each read leaves the file 16 bytes further on, and
\* when the session has ended exactly n rows have been written.
C6_OneRowPerRecord ==
    TailLen = 0 =>
        /\ Len(Rows) <= NComplete
        /\ \A k \in 1..Len(Rows) : RowFromRecord(Rows[k], k)
        /\ pc = "loop" => inFile = Min(16 * (Len(Rows) + 1), Len(stream))
        /\ pc \in {"done", "ValueError"} => Len(Rows) = NComplete

\* A session ended on three records, the second of frame type 0x1fc0 (no
\* status decoder's) with a length byte of 2, and a row after it.
C6_Witness ==
    /\ pc = "done" /\ TailLen = 0 /\ Len(Rows) = 3
    /\ Rows[2].frameType = <<"0", "x", "1", "f", "c", "0">>
    /\ Rows[2].length = <<"0", "2">>
    /\ Rows[3].frameType = <<"0", "x", "1", "4", "0", "0">>

\* ============================================ one frame, read and decoded

\* bytes.fromhex(s)
RECURSIVE FromHex(_)
FromHex(s) ==
    IF Len(s) < 2 THEN <<>>
    ELSE <<16 * DigitVal(s[1]) + DigitVal(s[2])>> \o FromHex(SubSeq(s, 3, Len(s)))

\* C5: of a complete record, byte i of the arbitration ID, the timestamp and
\* the payload on the wire is byte width-1-i of the field returned, so each
\* field read as a number is the little-endian value of its wire bytes; flags
\* and length come back as they are; and reversing a returned field's bytes
\* gives the wire bytes again.
C5_FieldsFullyReversed ==
    pc \in {"read", "decoded"} =>
        /\ Len(arbID) = 8 /\ Len(timeStamp) = 4 /\ Len(data) = 16
        /\ \A i \in 0..3 : FromHex(arbID)[4 - i] = stream[1 + i]
        /\ \A i \in 0..1 : FromHex(timeStamp)[2 - i] = stream[5 + i]
        /\ \A i \in 0..7 : FromHex(data)[8 - i] = stream[9 + i]
        /\ Int16(timeStamp) = stream[5] + 256 * stream[6]
        /\ Int16(Slice(arbID, 4, 8)) = stream[1] + 256 * stream[2]
        /\ Int16(Slice(arbID, 0, 4)) = stream[3] + 256 * stream[4]
        /\ FromHex(flags) = <<stream[7]>>
        /\ FromHex(length) = <<stream[8]>>
        /\ Reverse(FromHex(arbID)) = SubSeq(stream, 1, 4)
        /\ Reverse(FromHex(timeStamp)) = SubSeq(stream, 5, 6)
        /\ Reverse(FromHex(data)) = SubSeq(stream, 9, 16)
        /\ inFile = 16

\* A record of pairwise different bytes in each field has been read.
C5_Witness ==
    /\ pc = "read"
    /\ SubSeq(stream, 1, 4) = <<193, 20, 171, 2>>
    /\ arbID = <<"0", "2", "a", "b", "1", "4", "c", "1">>
    /\ timeStamp = <<"0", "4", "b", "1">>
    /\ data = <<"e", "f", "c", "d", "a", "b", "8", "9",
                "6", "7", "4", "5", "2", "3", "0", "1">>

\* C7: of an 8-character arbitration ID with upper half hi and lower half lo,
\* Decode_Arb_ID gives deviceType hi, frameType lo with its low 6 bits
\* cleared and deviceID the low 6 bits of lo, within 0..63, and does not raise.
C7_ArbIdFields ==
    pc = "decoded" =>
        LET hi == Int16(SubSeq(arbID, 1, 4))
            lo == Int16(SubSeq(arbID, 5, 8))
            ft == Int16(SubSeq(decoded.frameType, 3, Len(decoded.frameType)))
        IN  /\ ~decoded.raised
            /\ SubSeq(decoded.deviceType, 1, 2) = <<"0", "x">>
            /\ Int16(SubSeq(decoded.deviceType, 3, Len(decoded.deviceType))) = hi
            /\ SubSeq(decoded.frameType, 1, 2) = <<"0", "x">>
            /\ ft = lo - (lo % 64)
            /\ ft % 64 = 0
            /\ decoded.deviceID = lo % 64
            /\ decoded.deviceID \in 0..63

\* 0xff04ffff decoded: every bit of the low half set.
C7_Witness ==
    /\ pc = "decoded"
    /\ arbID = <<"f", "f", "0", "4", "f", "f", "f", "f">>
    /\ decoded.frameType = <<"0", "x", "f", "f", "c", "0">>
    /\ decoded.deviceID = 63

\* =========================================== motor controller payloads

\* The payload read bit by bit.
PayloadField(lo, w) == ToNat([i \in 1..w |-> BitAt(payload, lo + i - 1)])
SignExtend(v, w) == IF v >= 2 ^ (w - 1) THEN v - 2 ^ w ELSE v
\* A Python int of the model is the number n.
IntIs(x, n) == n >= 0 /\ Len(x) <= 30 /\ ToNat(x) = n
\* The payload with only the bits lo .. lo+w-1 and the bit f kept.
KeepOnly(lo, w, f) ==
    Trim([i \in 1..64 |->
            IF (i - 1 \in lo..(lo + w - 1)) \/ i - 1 = f
            THEN BitAt(payload, i - 1) ELSE 0])
Called(name) == \E i \in 1..Len(calls) : calls[i].name = name

\* C8 as stated: the integer DecodeStatus1 divides by 1023.0 is the 11-bit
\* two's-complement value with payload bits 24-26 on top of bits 32-39, a
\* number in -1024..1023 (-1 for 0b111 and 0xff).
C8_OutputPercentSignExtended ==
    Called("DecodeStatus1") =>
        /\ status1.motor_output_percent.den = 1023
        /\ IntIs(status1.motor_output_percent.num,
                 SignExtend(256 * PayloadField(24, 3) + PayloadField(32, 8), 11))

\* C9 as stated: sensor_position depends on payload bits 0-23 and 60 alone,
\* and is a 24-bit two's-complement number when bit 60 is clear.
C9_SensorPosition24Bit ==
    Called("DecodeStatus2") =>
        /\ status2.sensor_position
             = _GetSensorPosition(status2, KeepOnly(0, 24, 60)).sensor_position
        /\ BitAt(payload, 60) = 0 => Len(status2.sensor_position) <= 23

\* C10 as stated: sensor_velocity depends on payload bits 24-39 and 59 alone,
\* and is a 16-bit two's-complement number when bit 59 is clear.
C10_SensorVelocity16Bit ==
    Called("DecodeStatus2") =>
        /\ status2.sensor_velocity
             = _GetSensorVelocity(status2, KeepOnly(24, 16, 59)).sensor_velocity
        /\ BitAt(payload, 59) = 0 => Len(status2.sensor_velocity) <= 15

\* C11: the integer DecodeStatus2 scales by 0.125 is payload bits 40-47 on
\* top of bits 54-55 (the top two bits of the byte at bit 48): 10 bits,
\* 0..1023, never negative, whatever the other bits of the payload.
C11_OutputCurrent10Bit ==
    Called("DecodeStatus2") =>
        /\ status2.output_current.den = 8
        /\ IntIs(status2.output_current.num,
                 4 * PayloadField(40, 8) + PayloadField(54, 2))
        /\ Len(status2.output_current.num) <= 10

\* Bits 40-47 = 0xa5 and bits 54-55 = 0b11 decoded: 4 * 165 + 3.
C11_Witness ==
    /\ Called("DecodeStatus2")
    /\ PayloadField(40, 8) = 165 /\ PayloadField(54, 2) = 3
    /\ PayloadField(48, 6) = 0 /\ PayloadField(56, 8) = 255
    /\ ToNat(status2.output_current.num) = 663

\* C12: every fault and limit flag of status1 and status2 is the one payload
\* bit named for it (so it is 0 or 1, and no other bit of the payload moves it).
C12_FlagsAreSingleBits ==
    /\ Called("DecodeStatus1") =>
        /\ status1.hardware_failure = BitAt(payload, 0)
        /\ status1.reverse_limit_switch = BitAt(payload, 1)
        /\ status1.forward_limit_switch = BitAt(payload, 2)
        /\ status1.under_voltage = BitAt(payload, 3)
        /\ status1.reset_during_en = BitAt(payload, 4)
        /\ status1.sensor_out_of_phase = BitAt(payload, 5)
        /\ status1.sensor_overflow = BitAt(payload, 6)
        /\ status1.reverse_soft_limit = BitAt(payload, 24)
        /\ status1.forward_soft_limit = BitAt(payload, 25)
        /\ status1.hardware_esd_reset = BitAt(payload, 26)
        /\ status1.rev_limit_switch_closed = BitAt(payload, 30)
        /\ status1.fwd_limit_switch_closed = BitAt(payload, 31)
        /\ status1.remote_loss_of_signal = BitAt(payload, 52)
    /\ Called("DecodeStatus2") =>
        /\ status2.remote_loss_of_signal = BitAt(payload, 56)
        /\ status2.hardware_esd_reset = BitAt(payload, 57)
        /\ status2.reset_during_en = BitAt(payload, 58)
        /\ status2.sensor_out_of_phase = BitAt(payload, 61)
        /\ status2.sensor_overflow = BitAt(payload, 62)
        /\ status2.reverse_soft_limit = BitAt(payload, 48)
        /\ status2.forward_soft_limit = BitAt(payload, 49)
        /\ status2.reverse_limit_switch = BitAt(payload, 50)
        /\ status2.forward_limit_switch = BitAt(payload, 51)
        /\ status2.under_voltage = BitAt(payload, 52)

\* Both decoders have run on the payload whose only set bit is bit 52.
C12_Witness ==
    /\ Called("DecodeStatus1") /\ Called("DecodeStatus2")
    /\ payload = OneBit(52)
    /\ status1.remote_loss_of_signal = 1 /\ status1.hardware_failure = 0
    /\ status2.under_voltage = 1 /\ status2.forward_limit_switch = 0

\* The sixteen channel currents of the PDPCANStatus object.
PDPChannels ==
    <<pdp.status1.channel_0, pdp.status1.channel_1, pdp.status1.channel_2,
      pdp.status1.channel_3, pdp.status1.channel_4, pdp.status1.channel_5,
      pdp.status2.channel_6, pdp.status2.channel_7, pdp.status2.channel_8,
      pdp.status2.channel_9, pdp.status2.channel_10, pdp.status2.channel_11,
      pdp.status3.channel_12, pdp.status3.channel_13, pdp.status3.channel_14,
      pdp.status3.channel_15>>

LastCall == calls[Len(calls)]

\* C13 as stated: every integer GetCurrent scales by 0.125 has at most 10
\* bits, so every decoded channel current is n / 8 with n in 0..1023.
C13_CurrentsAre10Bit ==
    (\E n \in {"PDP.DecodeStatus1", "PDP.DecodeStatus2", "PDP.DecodeStatus3",
               "PDP.Main"} : Called(n)) =>
        \A i \in 1..Len(PDPChannels) :
            PDPChannels[i].den = 8 => Len(PDPChannels[i].num) <= 10

\* C14 as stated: V of the voltage 0.05 * V + 4 = (V + 80) / 20 is the top
\* byte of the payload, bits 56-63, a number in 0..255.
C14_VoltageIsTopByte ==
    Called("PDP.GetVoltage") =>
        /\ retval.den = 20
        /\ IntIs(retval.num, PayloadField(56, 8) + 80)

\* C15 as stated: a PDPCANStatus decode entry point returns without raising,
\* and DecodeStatus3 and Main leave the voltage of the payload in status3.
C15_EveryDecodeCompletes ==
    (calls # <<>> /\ LastCall.name \in {"PDP.DecodeStatus1", "PDP.DecodeStatus2",
                                        "PDP.DecodeStatus3", "PDP.Main"}) =>
        /\ raised = ""
        /\ LastCall.name \in {"PDP.DecodeStatus3", "PDP.Main"} =>
               pdp.status3.voltage = GetVoltage(payload)

\* The arguments of the most recent call of the method `name`, or <<>>.
LastArgs(name) ==
    LET at == {i \in 1..Len(calls) : calls[i].name = name}
    IN  IF at = {} THEN <<>>
        ELSE calls[CHOOSE i \in at : \A j \in at : j <= i]

\* C16: after any sequence of calls on one object, status1 is what
\* DecodeStatus1 makes of a new object from the arguments of the most recent
\* DecodeStatus1 call alone, status2 likewise of the most recent
\* DecodeStatus2 call, and a dictionary no call has decoded into is as built.
C16_StatusFromLastCallOnly ==
    /\ status1 = IF LastArgs("DecodeStatus1") = <<>> THEN InitStatus1
                 ELSE Status1Body(InitStatus1, LastArgs("DecodeStatus1").data,
                                  LastArgs("DecodeStatus1").timestamp)
    /\ status2 = IF LastArgs("DecodeStatus2") = <<>> THEN InitStatus2
                 ELSE Status2Body(InitStatus2, LastArgs("DecodeStatus2").data,
                                  LastArgs("DecodeStatus2").timestamp)

\* Two decodes into the same dictionary, the first of a payload of all ones
\* and the second of a zero payload at another timestamp: nothing of the
\* first is left.
C16_Witness ==
    /\ Len(calls) = 2
    /\ calls[1].name = "DecodeStatus2" /\ calls[2].name = "DecodeStatus2"
    /\ Len(calls[1].data) = 64 /\ calls[2].data = <<>>
    /\ calls[1].timestamp = 4 /\ calls[2].timestamp = 1201
    /\ status2.under_voltage = 0 /\ status2.output_current.num = <<>>
    /\ status2.timestamp = 1201
    /\ status1 = InitStatus1

\* C17: in a file whose raw timestamps never step back by 1..1000 from one
\* record to the next, the reconstructed timestamps never decrease, and they
\* strictly increase across every step back of more than 1000.
C17_MonotoneWithoutJitter ==
    (\A k \in 2..FullRows : WireRaw(k) - WireRaw(k - 1) \notin -1000..-1) =>
        \A k \in 2..FullRows :
            /\ Rows[k].timeStamp >= Rows[k - 1].timeStamp
            /\ WireRaw(k) - WireRaw(k - 1) < -1000 =>
                   Rows[k].timeStamp > Rows[k - 1].timeStamp

\* 65000, 65535, 0 written: the wrap of the full counter moves the
\* reconstructed timestamp on by one, from 65535 to 65536.
C17_Witness ==
    /\ FullRows >= 3
    /\ WireRaw(1) = 65000 /\ WireRaw(2) = 65535 /\ WireRaw(3) = 0
    /\ Rows[2].timeStamp = 65535
    /\ Rows[3].timeStamp = 65536
====
